---------------------------- MODULE Spec2Model ----------------------------
(***************************************************************************)
(* A model of lenstools/shear.py: the ShearMap class, its E/B-mode         *)
(* decomposition (decompose), the constructor from E/B modes (fromEBmodes),*)
(* the convergence reconstruction (convergence) and the Fourier cache      *)
(* (the instance attributes fourier_E and fourier_B).                      *)
(*                                                                         *)
(* Numbers.  numpy arrays are modelled with exact arithmetic.  An array is *)
(* a record [dtype, rows, cols, den, v]: cell <<i,j>> holds the complex    *)
(* number (v[<<i,j>>][1] + i*v[<<i,j>>][2]) / den, with integer v and den. *)
(* Arrays are kept in lowest terms (Normalize), so two arrays are equal as *)
(* TLA+ values exactly when they hold the same numbers.  The discrete      *)
(* Fourier transforms are modelled for the grid sides whose twiddle        *)
(* factors are Gaussian integers (N = 2 and N = 4).                        *)
(***************************************************************************)
EXTENDS Integers, Sequences, FiniteSets, TLC

(***************************************************************************)
(* Integer helpers                                                         *)
(***************************************************************************)
Abs(x) == IF x < 0 THEN -x ELSE x

RECURSIVE GCDNat(_, _)
GCDNat(a, b) == IF b = 0 THEN a ELSE GCDNat(b, a % b)

GCD(a, b) == GCDNat(Abs(a), Abs(b))

LCM(a, b) == (a \div GCD(a, b)) * b

Cells(R, C) == (0 .. R - 1) \X (0 .. C - 1)

\* The function f itself, as an explicit table of its values.
Table(f) == f @@ <<>>

\* The cells of an R x C array in row-major order, as a sequence.
CellSeq(R, C) == [k \in 1 .. R * C |-> <<(k - 1) \div C, (k - 1) % C>>]

(***************************************************************************)
(* Arrays                                                                  *)
(***************************************************************************)
\* The greatest common divisor of the components of cells cs[lo] .. cs[hi].
RECURSIVE RangeGCD(_, _, _, _)
RangeGCD(v, cs, lo, hi) ==
    IF lo > hi THEN 0
    ELSE IF lo = hi THEN GCD(v[cs[lo]][1], v[cs[lo]][2])
    ELSE LET mid == (lo + hi) \div 2
         IN  GCD(RangeGCD(v, cs, lo, mid), RangeGCD(v, cs, mid + 1, hi))

\* The greatest common divisor of den and of every component of v.
ContentGCD(R, C, den, v) == GCD(den, RangeGCD(v, CellSeq(R, C), 1, R * C))

\* An array in lowest terms.
Normalize(dtype, R, C, den, v) ==
    LET g == ContentGCD(R, C, den, v)
    IN  [dtype |-> dtype, rows |-> R, cols |-> C, den |-> den \div g,
         v |-> Table([p \in Cells(R, C) |-> <<v[p][1] \div g, v[p][2] \div g>>])]

\* numpy.zeros((R, C), dtype)
Zeros(dtype, R, C) ==
    [dtype |-> dtype, rows |-> R, cols |-> C, den |-> 1,
     v |-> [p \in Cells(R, C) |-> <<0, 0>>]]

\* a.shape
Shape(a) == <<a.rows, a.cols>>

\* Cell p of array a equals cell p of array b (as numbers).
CellEq(a, b, p) ==
    /\ a.v[p][1] * b.den = b.v[p][1] * a.den
    /\ a.v[p][2] * b.den = b.v[p][2] * a.den

\* Cell p of array a is the number 0.
CellZero(a, p) == a.v[p] = <<0, 0>>

\* z * i^q for a Gaussian integer z.
MulI(z, q) ==
    CASE q % 4 = 0 -> z
      [] q % 4 = 1 -> <<-z[2], z[1]>>
      [] q % 4 = 2 -> <<-z[1], -z[2]>>
      [] q % 4 = 3 -> <<z[2], -z[1]>>

\* z * exp(+2 pi i k / N) and z * exp(-2 pi i k / N), for N dividing 4.
TwiddlePos(z, N, k) == MulI(z, (k * (4 \div N)) % 4)
TwiddleNeg(z, N, k) == MulI(z, (4 - ((k * (4 \div N)) % 4)) % 4)

\* The sum of f[1] .. f[n] of a sequence of Gaussian integers.
SumSeq(f) ==
    LET s[k \in 0 .. Len(f)] ==
            IF k = 0 THEN <<0, 0>>
            ELSE LET a == s[k - 1]
                     b == f[k]
                 IN  <<a[1] + b[1], a[2] + b[2]>>
    IN  s[Len(f)]

(***************************************************************************)
(* numpy.fft                                                               *)
(***************************************************************************)
\* numpy.fft.rfft2 of a real N x N array: the real transform along axis 1,
\* then the complex transform along axis 0, which gives the N x (N/2+1)
\* half-plane X[ky,kx] = sum_{r,c} x[r,c] exp(-2 pi i (ky r + kx c) / N).
rfft2(x) ==
    LET N  == x.rows
        M  == (N \div 2) + 1
        Xr == Table([p \in Cells(N, M) |->
                 SumSeq([c \in 1 .. N |->
                    TwiddleNeg(<<x.v[<<p[1], c - 1>>][1], 0>>, N, p[2] * (c - 1))])])
        X  == Table([p \in Cells(N, M) |->
                 SumSeq([r \in 1 .. N |->
                    TwiddleNeg(Xr[<<r - 1, p[2]>>], N, p[1] * (r - 1))])])
    IN  Normalize("complex128", N, M, x.den, X)

\* numpy.fft.irfft2 of an R x C complex array: the inverse complex transform
\* along axis 0, then the inverse real transform along axis 1 with output
\* length n = 2 (C - 1).  The inverse real transform reads only the real
\* part of its columns 0 and C-1 (the zero and the Nyquist frequency).
irfft2(X) ==
    LET R == X.rows
        C == X.cols
        n == 2 * (C - 1)
        Y == Table([p \in Cells(R, C) |->
                 SumSeq([ky \in 1 .. R |->
                    TwiddlePos(X.v[<<ky - 1, p[2]>>], R, (ky - 1) * p[1])])])
        x == Table([p \in Cells(R, n) |->
                 <<Y[<<p[1], 0>>][1]
                   + 2 * SumSeq([k \in 1 .. C - 2 |->
                           TwiddlePos(Y[<<p[1], k>>], n, k * p[2])])[1]
                   + (IF p[2] % 2 = 0 THEN 1 ELSE -1) * Y[<<p[1], C - 1>>][1],
                   0>>])
    IN  Normalize("float64", R, n, X.den * R * n, x)

(***************************************************************************)
(* Frequencies and rotation angles                                         *)
(***************************************************************************)
\* rfftfreq(N)[j] and fftfreq(N)[i], in units of 1/N.
rfftfreq(N) == [j \in 0 .. N \div 2 |-> j]
fftfreq(N) == [i \in 0 .. N - 1 |-> IF 2 * i < N THEN i ELSE i - N]

\* l_squared in units of 1/N^2; l_squared[0,0] is overwritten with 1.0.
l_squared(N) ==
    [p \in Cells(N, (N \div 2) + 1) |->
        IF p = <<0, 0>> THEN N * N
        ELSE rfftfreq(N)[p[2]] * rfftfreq(N)[p[2]]
             + fftfreq(N)[p[1]] * fftfreq(N)[p[1]]]

\* The numerators of sin_2_phi and cos_2_phi over l_squared.
sin_2_phi_num(N) ==
    [p \in Cells(N, (N \div 2) + 1) |-> 2 * rfftfreq(N)[p[2]] * fftfreq(N)[p[1]]]
cos_2_phi_num(N) ==
    [p \in Cells(N, (N \div 2) + 1) |->
        rfftfreq(N)[p[2]] * rfftfreq(N)[p[2]]
        - fftfreq(N)[p[1]] * fftfreq(N)[p[1]]]

\* A common multiple of the cells of l_squared.
LsqLCM(N) ==
    LET cs == CellSeq(N, (N \div 2) + 1)
        m[k \in 0 .. Len(cs)] ==
            IF k = 0 THEN 1 ELSE LCM(m[k - 1], l_squared(N)[cs[k]])
    IN  m[Len(cs)]

\* (ca * A + cb * B) / l_squared cell by cell, where ca and cb are integer
\* numerator fields: the linear combinations of lines 129-130 and 284-285.
Rotate(ca, A, cb, B) ==
    LET N   == A.rows
        M   == A.cols
        L   == LsqLCM(N)
        lsq == Table(l_squared(N))
        D   == LCM(A.den, B.den)
        fa  == D \div A.den
        fb  == D \div B.den
        v   == Table([p \in Cells(N, M) |->
                  LET w == L \div lsq[p]
                  IN  <<w * (ca[p] * fa * A.v[p][1] + cb[p] * fb * B.v[p][1]),
                        w * (ca[p] * fa * A.v[p][2] + cb[p] * fb * B.v[p][2])>>])
    IN  Normalize("complex128", N, M, D * L, v)

Neg(f) == [p \in DOMAIN f |-> -f[p]]

\* Lines 287-288 with the right-hand side of line 278 (l_squared[0,0] = 1.0).
ZeroDCWritesOne(a) ==
    Normalize(a.dtype, a.rows, a.cols, a.den, [a.v EXCEPT ![<<0, 0>>] = <<a.den, 0>>])

\* a[0,0] = 0.0
ZeroDC(a) ==
    Normalize(a.dtype, a.rows, a.cols, a.den, [a.v EXCEPT ![<<0, 0>>] = <<0, 0>>])


(***************************************************************************)
(* Values of the program                                                   *)
(***************************************************************************)
\* hasattr(obj, name) is False; no instance; Python's None.
NoAttr == [missing |-> "attribute"]
NoObject == [missing |-> "object"]
None == [missing |-> "value"]

hasattr(x) == x # NoAttr

\* astropy quantities: value (a ratio <<numerator, denominator>>) and unit.
Quantity(num, den, unit) == [value |-> <<num, den>>, unit |-> unit]
physical_type(unit) == IF unit \in {"deg", "rad"} THEN "angle" ELSE "length"

\* angle.to(deg).value for a quantity in degrees.
to_deg_value(angle) == angle.value

\* The keyword default of fromEBmodes: angle=3.14*deg.
DefaultAngle == Quantity(157, 50, "deg")

\* The bin edges convergence() and visualizeComponents() decompose with:
\* np.array([200.0,400.0]).
DefaultEdges == <<200, 400>>

(***************************************************************************)
(* ShearMap.__init__                                                       *)
(***************************************************************************)
\* The instance __init__ leaves, or the exception it raises.
ShearMapInit(gamma, angle) ==
    IF physical_type(angle.unit) = "angle"
    THEN [raised |-> "none",
          obj |-> [gamma |-> gamma, side_angle |-> angle,
                   fourier_E |-> NoAttr, fourier_B |-> NoAttr]]
    ELSE [raised |-> "AssertionError", obj |-> NoObject]

(***************************************************************************)
(* ShearMap.fromEBmodes                                                    *)
(***************************************************************************)
\* shape[1] == shape[0]/2 + 1 under true division (from __future__ import
\* division): an odd shape[0] never satisfies it.
RealFFTLayout(a) == 2 * a.cols = a.rows + 2

\* Line 105 asserting the dtype of fourier_E only.
fromEBmodesAssertOneDtype(fourier_E, fourier_B) ==
    IF ~(fourier_E.dtype = "complex128") THEN 105
    ELSE IF ~RealFFTLayout(fourier_E) THEN 106
    ELSE IF ~RealFFTLayout(fourier_B) THEN 107
    ELSE IF Shape(fourier_E) # Shape(fourier_B) THEN 108
    ELSE 0

\* The assertions that open fromEBmodes, in order; the line of the first one
\* that fails, 0 when all pass.
fromEBmodesAssert(fourier_E, fourier_B) ==
    IF ~(fourier_E.dtype = "complex128" /\ fourier_B.dtype = "complex128") THEN 105
    ELSE IF ~RealFFTLayout(fourier_E) THEN 106
    ELSE IF ~RealFFTLayout(fourier_B) THEN 107
    ELSE IF Shape(fourier_E) # Shape(fourier_B) THEN 108
    ELSE 0

\* Invert E/B modes and find the components of the shear in Fourier space.
InverseRotation1(fourier_E, fourier_B) ==
    Rotate(cos_2_phi_num(fourier_E.rows), fourier_E,
           Neg(sin_2_phi_num(fourier_E.rows)), fourier_B)
\* Line 130 with the sign of line 129 on its second term.
InverseRotation2SignSlip(fourier_E, fourier_B) ==
    Rotate(sin_2_phi_num(fourier_E.rows), fourier_E,
           Neg(cos_2_phi_num(fourier_E.rows)), fourier_B)
InverseRotation2(fourier_E, fourier_B) ==
    Rotate(sin_2_phi_num(fourier_E.rows), fourier_E,
           cos_2_phi_num(fourier_E.rows), fourier_B)

\* np.array([gamma1,gamma2]) of fromEBmodes.
InverseGamma(fourier_E, fourier_B) ==
    <<irfft2(InverseRotation1(fourier_E, fourier_B)),
      irfft2(InverseRotation2(fourier_E, fourier_B))>>

\* The outcome of ShearMap.fromEBmodes(fourier_E, fourier_B, angle).
fromEBmodes(fourier_E, fourier_B, angle) ==
    IF fromEBmodesAssert(fourier_E, fourier_B) # 0
    THEN [raised |-> "AssertionError",
          line |-> fromEBmodesAssert(fourier_E, fourier_B), obj |-> NoObject]
    ELSE IF fourier_E.rows = 0
    THEN \* rfftfreq(0) divides by zero
         [raised |-> "ZeroDivisionError", line |-> 111, obj |-> NoObject]
    ELSE LET new == ShearMapInit(InverseGamma(fourier_E, fourier_B), angle)
         IN  IF new.raised # "none"
             THEN [raised |-> new.raised, line |-> 137, obj |-> NoObject]
             ELSE [raised |-> "none", line |-> 141,
                   obj |-> [new.obj EXCEPT !.fourier_E = fourier_E,
                                           !.fourier_B = fourier_B]]

(***************************************************************************)
(* ShearMap.decompose                                                      *)
(***************************************************************************)
\* The forward rotation of lines 264-285, and E[0,0] = B[0,0] = 0.
ForwardRotationE(gamma) ==
    Rotate(cos_2_phi_num(gamma[1].rows), rfft2(gamma[1]),
           sin_2_phi_num(gamma[1].rows), rfft2(gamma[2]))
ForwardRotationB(gamma) ==
    Rotate(Neg(sin_2_phi_num(gamma[1].rows)), rfft2(gamma[1]),
           cos_2_phi_num(gamma[1].rows), rfft2(gamma[2]))

ft_E(gamma) == ZeroDC(ForwardRotationE(gamma))
ft_B(gamma) == ZeroDC(ForwardRotationB(gamma))

\* l = 0.5*(l_edges[:-1] + l_edges[1:]), each center as <<sum, 2>>.
BinCenters(l_edges) ==
    [k \in 1 .. (IF Len(l_edges) = 0 THEN 0 ELSE Len(l_edges) - 1) |->
        <<l_edges[k] + l_edges[k + 1], 2>>]

\* What the azimuthal binning primitive requires of its bin edges.
ValidEdges(l_edges) ==
    /\ Len(l_edges) >= 2
    /\ \A k \in 1 .. Len(l_edges) - 1 : l_edges[k] < l_edges[k + 1]

\* One call of _topology.rfft2_azimuthal, and the value it returns.
AzimuthalCall(a, b, side_angle, l_edges) ==
    [ft_a |-> a, ft_b |-> b, angle |-> to_deg_value(side_angle), l_edges |-> l_edges]
rfft2_azimuthal(call) == [power |-> call]

\* The three calls decompose makes: (E,E), (B,B), (E,B).
AzimuthalCalls(obj, E, B, l_edges) ==
    <<AzimuthalCall(E, E, obj.side_angle, l_edges),
      AzimuthalCall(B, B, obj.side_angle, l_edges),
      AzimuthalCall(E, B, obj.side_angle, l_edges)>>

\* Lines 300-301 outside the if of line 299.
KeepFourierAlways(obj, keep_fourier, E, B) ==
    [obj EXCEPT !.fourier_E = E, !.fourier_B = B]

\* if keep_fourier: self.fourier_E = ft_E; self.fourier_B = ft_B
KeepFourier(obj, keep_fourier, E, B) ==
    IF keep_fourier
    THEN [obj EXCEPT !.fourier_E = E, !.fourier_B = B]
    ELSE obj

\* The outcome of obj.decompose(l_edges, keep_fourier).  The primitive is
\* external: given edges it does not support, it either raises (at its first
\* call) or returns; outcome says which.
\* E and B are the ft_E and ft_B of lines 284-288.
decomposeFrom(obj, E, B, l_edges, keep_fourier, outcome) ==
    LET calls == AzimuthalCalls(obj, E, B, l_edges)
    IN  IF outcome = "raise"
        THEN [raised |-> "ExternalError", value |-> None,
              azimuthal |-> <<calls[1]>>, obj |-> obj]
        ELSE [raised |-> "none",
              value |-> [l |-> BinCenters(l_edges),
                         P_EE |-> rfft2_azimuthal(calls[1]),
                         P_BB |-> rfft2_azimuthal(calls[2]),
                         P_EB |-> rfft2_azimuthal(calls[3])],
              azimuthal |-> calls,
              obj |-> KeepFourier(obj, keep_fourier, E, B)]

decompose(obj, l_edges, keep_fourier, outcome) ==
    decomposeFrom(obj, ft_E(obj.gamma), ft_B(obj.gamma), l_edges, keep_fourier, outcome)

\* The outcomes the primitive may have for these edges.
AzimuthalOutcomes(l_edges) ==
    IF ValidEdges(l_edges) THEN {"return"} ELSE {"return", "raise"}

(***************************************************************************)
(* ShearMap.convergence                                                    *)
(***************************************************************************)
\* ConvergenceMap(conv, self.side_angle)
ConvergenceMap(conv, angle) == [kappa |-> conv, side_angle |-> angle]

\* convergence() without the hasattr test of line 316.
convergenceAlwaysDecomposes(obj) ==
    LET inner == decompose(obj, DefaultEdges, TRUE, "return")
    IN  [raised |-> "none",
         value |-> ConvergenceMap(irfft2(inner.obj.fourier_E), inner.obj.side_angle),
         azimuthal |-> inner.azimuthal,
         calls |-> <<[op |-> "decompose", l_edges |-> DefaultEdges,
                      keep_fourier |-> TRUE]>>,
         obj |-> inner.obj]

\* The outcome of obj.convergence().
convergence(obj) ==
    LET inner == IF ~hasattr(obj.fourier_E)
                 THEN decompose(obj, DefaultEdges, TRUE, "return")
                 ELSE [raised |-> "none", value |-> None, azimuthal |-> <<>>,
                       obj |-> obj]
        calls == IF ~hasattr(obj.fourier_E)
                 THEN <<[op |-> "decompose", l_edges |-> DefaultEdges,
                         keep_fourier |-> TRUE]>>
                 ELSE <<>>
    IN  [raised |-> "none",
         value |-> ConvergenceMap(irfft2(inner.obj.fourier_E), inner.obj.side_angle),
         azimuthal |-> inner.azimuthal,
         calls |-> calls,
         obj |-> inner.obj]

(***************************************************************************)
(* Inputs                                                                  *)
(***************************************************************************)
\* Cell values range over -MaxAmp .. MaxAmp; array shapes given to
\* fromEBmodes over 0 .. MaxDim rows and columns.
MaxAmp == 1
MaxDim == 4

\* The grid sides N the transforms are computed for.
GridSides == {2, 4}

Dtypes == {"float64", "complex64", "complex128"}

\* An N x N real field: mean everywhere, mean + amp at pixel [1,1].
RealField(N, mean, amp) ==
    Normalize("float64", N, N, 1,
              [p \in Cells(N, N) |-> IF p = <<1, 1>> THEN <<mean + amp, 0>>
                                     ELSE <<mean, 0>>])

\* x[1,1] = value, in place.
SetPixel(x, value) ==
    Normalize(x.dtype, x.rows, x.cols, x.den,
              [x.v EXCEPT ![<<1, 1>>] = <<value * x.den, 0>>])

\* Raw shear maps: gamma1 a constant field, gamma2 a constant field with one
\* pixel raised.
GammaInputs ==
    {<<RealField(N, m, 0), RealField(N, 0, a)>> :
        N \in GridSides, m \in 0 .. MaxAmp, a \in 0 .. MaxAmp}

\* An N x (N/2+1) complex128 field with the single non-zero cell p = z.
ComplexField(N, p, z) ==
    Normalize("complex128", N, (N \div 2) + 1, 1,
              [q \in Cells(N, (N \div 2) + 1) |-> IF q = p THEN z ELSE <<0, 0>>])

\* Fourier fields a caller may hand to fromEBmodes: zero but for one cell
\* (of the zero-frequency column, an inner column or the Nyquist column).
ModeCells(N) == {<<1, 0>>, <<1, N \div 2>>, <<N \div 2, N \div 2>>}
ModeValues == {<<MaxAmp, 0>>, <<0, MaxAmp>>}
\* The transform of a real field: MaxAmp at the Nyquist-column cells
\* [1,N/2] and [N-1,N/2], which are each other's conjugates.
NyquistPair(N) ==
    Normalize("complex128", N, (N \div 2) + 1, 1,
              [q \in Cells(N, (N \div 2) + 1) |->
                  IF q \in {<<1, N \div 2>>, <<N - 1, N \div 2>>}
                  THEN <<MaxAmp, 0>> ELSE <<0, 0>>])
ModeInputs(N) ==
    {Zeros("complex128", N, (N \div 2) + 1), NyquistPair(N)}
    \cup {ComplexField(N, p, z) : p \in ModeCells(N), z \in ModeValues}

\* The E and B fields decompose computes for the raw shear maps.
ForwardImages == {<<ft_E(g), ft_B(g)>> : g \in GammaInputs}

\* Well-formed arguments of fromEBmodes.
EBInputs ==
    UNION {{<<E, Zeros("complex128", N, (N \div 2) + 1)>> : E \in ModeInputs(N)}
           \cup {<<Zeros("complex128", N, (N \div 2) + 1), B>> : B \in ModeInputs(N)} :
           N \in GridSides}
    \cup ForwardImages

\* Arrays of every dtype and shape within MaxDim (their values do not matter
\* to the checks that open fromEBmodes).
ShapeInputs ==
    {Zeros(d, R, C) : d \in Dtypes, R \in 0 .. MaxDim, C \in 0 .. MaxDim}

AngleInputs == {Quantity(39, 20, "deg")}
NotAnAngle == Quantity(1, 1, "m")

EdgeInputs == {DefaultEdges, <<200>>, <<400, 200>>, <<200, 200>>}

\* A gamma that is a property whose setter drops the cache.
SetGammaPixelInvalidating(obj, value) ==
    [obj EXCEPT !.gamma[2] = SetPixel(obj.gamma[2], value),
                !.fourier_E = NoAttr, !.fourier_B = NoAttr]

\* obj.gamma[1][1,1] = value: gamma is a plain attribute, and writing it
\* touches nothing else of the instance.
SetGammaPixel(obj, value) ==
    [obj EXCEPT !.gamma[2] = SetPixel(obj.gamma[2], value)]

(***************************************************************************)
(* State                                                                   *)
(***************************************************************************)
\* Threads that call the methods of one instance, and the calls they make in all.
NumThreads == 2
MaxCalls == 2
Threads == 1 .. NumThreads

\* The local variables of a call: the method, the number of the call in its
\* thread, what line 316 or 360 found, the ft_E and ft_B of decompose, what
\* visualizeComponents read, the exception and the return value.
NewFrame(op, n, keep_fourier) ==
    [op |-> op, call |-> n, keep_fourier |-> keep_fourier, observed |-> "unset",
     ft_E |-> None, ft_B |-> None, readE |-> None, readB |-> None,
     raised |-> "none", value |-> None]

\* Who stored the attributes: the call that did, every call that ever did.
CallTag(t, n) == [by |-> t, call |-> n]
Supplied == CallTag(0, 0)
NoWriter == [E |-> NoAttr, B |-> NoAttr, Ehist |-> {}, Bhist |-> {}]

VARIABLES
    sf,         \* the ShearMap instance under study, NoObject before it exists
    ret,        \* the latest call: its name, arguments, result or exception
    azimuthal,  \* the calls of _topology.rfft2_azimuthal the latest call made
    supplied,   \* the <<fourier_E, fourier_B>> given to fromEBmodes, if any
    pc,         \* per thread: the statement its running call is at, or "idle"
    frame,      \* per thread: the local variables of its running or last call
    writer,     \* which call stored sf.fourier_E and sf.fourier_B
    overlap     \* a call started while another was running

vars == <<sf, ret, azimuthal, supplied, pc, frame, writer, overlap>>
threadVars == <<pc, frame, writer, overlap>>

NoThreads ==
    /\ pc = [t \in Threads |-> "idle"]
    /\ frame = [t \in Threads |-> NewFrame("none", 0, FALSE)]
    /\ overlap = FALSE

Init ==
    /\ sf = NoObject
    /\ ret = None
    /\ azimuthal = <<>>
    /\ supplied = None
    /\ writer = NoWriter
    /\ NoThreads

\* ShearMap(gamma, angle)
Construct(gamma, angle) ==
    /\ LET r == ShearMapInit(gamma, angle)
       IN  /\ sf' = r.obj
           /\ ret' = [op |-> "__init__", args |-> [angle |-> angle],
                      raised |-> r.raised, value |-> None, calls |-> <<>>]
    /\ UNCHANGED <<azimuthal, supplied, threadVars>>

\* ShearMap.fromEBmodes(fourier_E, fourier_B, angle)
FromEBmodes(fourier_E, fourier_B, angle) ==
    /\ LET r == fromEBmodes(fourier_E, fourier_B, angle)
       IN  /\ sf' = r.obj
           /\ ret' = [op |-> "fromEBmodes",
                      args |-> [fourier_E |-> fourier_E, fourier_B |-> fourier_B,
                                angle |-> angle],
                      raised |-> r.raised, value |-> None, calls |-> <<>>]
           /\ supplied' = IF r.raised = "none"
                          THEN [fourier_E |-> fourier_E, fourier_B |-> fourier_B]
                          ELSE None
    /\ UNCHANGED <<azimuthal, threadVars>>

\* sf.decompose(l_edges, keep_fourier)
Decompose ==
    /\ sf # NoObject
    /\ \E E \in {ft_E(sf.gamma)}, B \in {ft_B(sf.gamma)} :
           \E l_edges \in EdgeInputs, keep_fourier \in BOOLEAN :
           \E outcome \in AzimuthalOutcomes(l_edges) :
              LET r == decomposeFrom(sf, E, B, l_edges, keep_fourier, outcome)
              IN  /\ sf' = r.obj
                  /\ ret' = [op |-> "decompose",
                             args |-> [l_edges |-> l_edges,
                                       keep_fourier |-> keep_fourier],
                             raised |-> r.raised, value |-> r.value, calls |-> <<>>]
                  /\ azimuthal' = r.azimuthal
    /\ UNCHANGED <<supplied, threadVars>>

\* sf.convergence()
Convergence ==
    /\ sf # NoObject
    /\ LET r == convergence(sf)
       IN  /\ sf' = r.obj
           /\ ret' = [op |-> "convergence", args |-> None,
                      raised |-> r.raised, value |-> r.value, calls |-> r.calls]
           /\ azimuthal' = r.azimuthal
    /\ UNCHANGED <<supplied, threadVars>>

\* sf.gamma[1][1,1] = value: the caller writes a pixel of gamma2 in place.
MutateGamma(value) ==
    /\ sf # NoObject
    /\ sf' = SetGammaPixel(sf, value)
    /\ ret' = [op |-> "gamma[1][1,1] = value", args |-> [value |-> value],
               raised |-> "none", value |-> None, calls |-> <<>>]
    /\ azimuthal' = <<>>
    /\ UNCHANGED <<supplied, threadVars>>

\* The program builds one instance, by either constructor, as its first call.
Next ==
    \/ /\ ret = None
       /\ \E gamma \in GammaInputs, angle \in AngleInputs \cup {NotAnAngle} :
             Construct(gamma, angle)
    \/ /\ ret = None
       /\ \E eb \in EBInputs, angle \in {DefaultAngle, NotAnAngle} :
             FromEBmodes(eb[1], eb[2], angle)
    \/ /\ ret = None
       /\ \E E \in ShapeInputs, B \in ShapeInputs :
             FromEBmodes(E, B, DefaultAngle)
    \/ Decompose
    \/ Convergence
    \/ \E value \in 0 .. MaxAmp : MutateGamma(value)

Spec == Init /\ [][Next]_vars

(***************************************************************************)
(* Threads sharing one instance.  The interpreter switches threads between *)
(* statements; a call is the sequence of its statements.                   *)
(***************************************************************************)
\* The instances the threads share: one built from raw shear, one by
\* fromEBmodes.
SharedGamma == <<RealField(2, 0, 0), RealField(2, 0, MaxAmp)>>
SharedModes == <<ComplexField(2, <<1, 0>>, <<MaxAmp, 0>>), Zeros("complex128", 2, 2)>>

InitThreads ==
    /\ ret = None
    /\ azimuthal = <<>>
    /\ NoThreads
    /\ \/ /\ sf = ShearMapInit(SharedGamma, DefaultAngle).obj
          /\ supplied = None
          /\ writer = NoWriter
       \/ /\ sf = fromEBmodes(SharedModes[1], SharedModes[2], DefaultAngle).obj
          /\ supplied = [fourier_E |-> SharedModes[1], fourier_B |-> SharedModes[2]]
          /\ writer = [E |-> Supplied, B |-> Supplied,
                       Ehist |-> {Supplied}, Bhist |-> {Supplied}]

Tag(t) == CallTag(t, frame[t].call)

\* The shared instance with the record of who stored its attributes.
Heap == [obj |-> sf, writer |-> writer]

\* self.fourier_E = ft_E, by the call tag, but only while the attribute is
\* absent.
WriteFourierEIfAbsent(h, tag, ft) ==
    IF hasattr(h.obj.fourier_E) THEN h
    ELSE [obj |-> [h.obj EXCEPT !.fourier_E = ft],
          writer |-> [h.writer EXCEPT !.E = tag, !.Ehist = @ \cup {tag}]]

\* self.fourier_E = ft_E, by the call tag.
WriteFourierE(h, tag, ft) ==
    [obj |-> [h.obj EXCEPT !.fourier_E = ft],
     writer |-> [h.writer EXCEPT !.E = tag, !.Ehist = @ \cup {tag}]]

\* Line 301 left out.
WriteFourierBMissing(h, tag, ft) == h

\* self.fourier_B = ft_B, by the call tag.
WriteFourierB(h, tag, ft) ==
    [obj |-> [h.obj EXCEPT !.fourier_B = ft],
     writer |-> [h.writer EXCEPT !.B = tag, !.Bhist = @ \cup {tag}]]

\* Thread t calls a method of sf.
\* The calls started so far, by the threads 1 .. t.
RECURSIVE CallsStarted(_)
CallsStarted(t) == IF t = 0 THEN 0 ELSE frame[t].call + CallsStarted(t - 1)

StartCall(t, op, keep_fourier, first) ==
    /\ pc[t] = "idle"
    /\ CallsStarted(NumThreads) < MaxCalls
    /\ pc' = [pc EXCEPT ![t] = first]
    /\ frame' = [frame EXCEPT ![t] = NewFrame(op, frame[t].call + 1, keep_fourier)]
    /\ overlap' = (overlap \/ \E u \in Threads \ {t} : pc[u] # "idle")
    /\ UNCHANGED <<sf, ret, azimuthal, supplied, writer>>

StartConvergence(t) == StartCall(t, "convergence", TRUE, "316")
StartVisualize(t) == StartCall(t, "visualizeComponents", TRUE, "360")
StartDecompose(t, keep_fourier) == StartCall(t, "decompose", keep_fourier, "265")

\* Lines 316 and 360: if not hasattr(self,"fourier_E")
CheckCache(t, line, cached) ==
    /\ pc[t] = line
    /\ IF hasattr(sf.fourier_E)
       THEN /\ pc' = [pc EXCEPT ![t] = cached]
            /\ frame' = [frame EXCEPT ![t].observed = "cached"]
       ELSE /\ pc' = [pc EXCEPT ![t] = "265"]
            /\ frame' = [frame EXCEPT ![t].observed = "absent"]
    /\ UNCHANGED <<sf, ret, azimuthal, supplied, writer, overlap>>

ConvergenceCheck(t) == CheckCache(t, "316", "321")
VisualizeCheck(t) == CheckCache(t, "360", "386")

\* decompose, lines 265-291: the transforms, the rotation, the zero at [0,0].
DecomposeTransform(t) ==
    /\ pc[t] = "265"
    /\ pc' = [pc EXCEPT ![t] = "294"]
    /\ frame' = [frame EXCEPT ![t].ft_E = ft_E(sf.gamma), ![t].ft_B = ft_B(sf.gamma)]
    /\ UNCHANGED <<sf, ret, azimuthal, supplied, writer, overlap>>

\* decompose, lines 294-299: the three power spectra, and the test of
\* keep_fourier.
DecomposePower(t) ==
    /\ pc[t] = "294"
    /\ LET r == decomposeFrom(sf, frame[t].ft_E, frame[t].ft_B, DefaultEdges,
                              FALSE, "return")
       IN  /\ azimuthal' = r.azimuthal
           /\ frame' = [frame EXCEPT ![t].value = r.value]
    /\ pc' = [pc EXCEPT ![t] = IF frame[t].keep_fourier THEN "300" ELSE "303"]
    /\ UNCHANGED <<sf, ret, supplied, writer, overlap>>

\* decompose, line 300
DecomposeKeepE(t) ==
    /\ pc[t] = "300"
    /\ LET h == WriteFourierE(Heap, Tag(t), frame[t].ft_E)
       IN  sf' = h.obj /\ writer' = h.writer
    /\ pc' = [pc EXCEPT ![t] = "301"]
    /\ UNCHANGED <<ret, azimuthal, supplied, frame, overlap>>

\* decompose, line 301
DecomposeKeepB(t) ==
    /\ pc[t] = "301"
    /\ LET h == WriteFourierB(Heap, Tag(t), frame[t].ft_B)
       IN  sf' = h.obj /\ writer' = h.writer
    /\ pc' = [pc EXCEPT ![t] = "303"]
    /\ UNCHANGED <<ret, azimuthal, supplied, frame, overlap>>

\* decompose, line 303: back in the caller.
DecomposeReturn(t) ==
    /\ pc[t] = "303"
    /\ pc' = [pc EXCEPT ![t] = CASE frame[t].op = "convergence" -> "321"
                                 [] frame[t].op = "visualizeComponents" -> "386"
                                 [] OTHER -> "idle"]
    /\ UNCHANGED <<sf, ret, azimuthal, supplied, frame, writer, overlap>>

\* convergence, lines 321-324
ConvergenceReturn(t) ==
    /\ pc[t] = "321"
    /\ frame' = [frame EXCEPT
                   ![t].value = ConvergenceMap(irfft2(sf.fourier_E), sf.side_angle)]
    /\ pc' = [pc EXCEPT ![t] = "idle"]
    /\ UNCHANGED <<sf, ret, azimuthal, supplied, writer, overlap>>

\* visualizeComponents, line 386 (component "EE"): reads self.fourier_E
VisualizeEE(t) ==
    /\ pc[t] = "386"
    /\ frame' = [frame EXCEPT ![t].readE = writer.E]
    /\ pc' = [pc EXCEPT ![t] = "388"]
    /\ UNCHANGED <<sf, ret, azimuthal, supplied, writer, overlap>>

\* visualizeComponents, line 388 (component "BB"): reads self.fourier_B
VisualizeBB(t) ==
    /\ pc[t] = "388"
    /\ IF hasattr(sf.fourier_B)
       THEN frame' = [frame EXCEPT ![t].readB = writer.B]
       ELSE frame' = [frame EXCEPT ![t].raised = "AttributeError"]
    /\ pc' = [pc EXCEPT ![t] = "idle"]
    /\ UNCHANGED <<sf, ret, azimuthal, supplied, writer, overlap>>

NextThreads ==
    \E t \in Threads :
        \/ StartConvergence(t)
        \/ StartVisualize(t)
        \/ \E keep_fourier \in BOOLEAN : StartDecompose(t, keep_fourier)
        \/ ConvergenceCheck(t)
        \/ VisualizeCheck(t)
        \/ DecomposeTransform(t)
        \/ DecomposePower(t)
        \/ DecomposeKeepE(t)
        \/ DecomposeKeepB(t)
        \/ DecomposeReturn(t)
        \/ ConvergenceReturn(t)
        \/ VisualizeEE(t)
        \/ VisualizeBB(t)

SpecThreads == InitThreads /\ [][NextThreads]_vars

(***************************************************************************)
(* Vocabulary of the properties                                            *)
(***************************************************************************)
DC == <<0, 0>>

\* The two states of the cache of an instance.
FourierCached(obj) ==
    obj # NoObject /\ hasattr(obj.fourier_E) /\ hasattr(obj.fourier_B)
NoFourierCache(obj) ==
    obj # NoObject /\ ~hasattr(obj.fourier_E) /\ ~hasattr(obj.fourier_B)

Returned(op) == ret # None /\ ret.op = op /\ ret.raised = "none"
Called(op) == ret # None /\ ret.op = op

\* The latest call ran the forward transform: the E and B fields it computed
\* are those it handed to the binning primitive.
RanForward == Called("decompose") \/ (Called("convergence") /\ ret.calls # <<>>)
ComputedE == azimuthal[1].ft_a
ComputedB == azimuthal[2].ft_a
\* Every field the latest call handed to the binning primitive.
PassedFields ==
    {azimuthal[i].ft_a : i \in 1 .. Len(azimuthal)}
    \cup {azimuthal[i].ft_b : i \in 1 .. Len(azimuthal)}

\* Arrays a and b hold the same numbers at every cell but [0,0].
EqualOffDC(a, b) ==
    /\ Shape(a) = Shape(b)
    /\ \A p \in Cells(a.rows, a.cols) \ {DC} : CellEq(a, b, p)

AllZero(a) == \A p \in Cells(a.rows, a.cols) : CellZero(a, p)

(***************************************************************************)
(* C1: the cache state machine of one instance.  An instance built by      *)
(* __init__ has no cache; decompose(keep_fourier=True) leaves it cached    *)
(* with exactly the E and B fields that call computed; an instance built   *)
(* by fromEBmodes is cached with the fields the caller gave; and           *)
(* decompose(keep_fourier=False) leaves both cache attributes as they were.*)
(***************************************************************************)
C1_AfterInit == Returned("__init__") => NoFourierCache(sf)

C1_AfterKeep ==
    (Returned("decompose") /\ ret.args.keep_fourier) =>
        /\ FourierCached(sf)
        /\ sf.fourier_E = ComputedE
        /\ sf.fourier_B = ComputedB
        /\ ComputedE = ft_E(sf.gamma)
        /\ ComputedB = ft_B(sf.gamma)

C1_AfterFromEB ==
    Returned("fromEBmodes") =>
        /\ FourierCached(sf)
        /\ sf.fourier_E = ret.args.fourier_E
        /\ sf.fourier_B = ret.args.fourier_B

C1_NoKeep ==
    (Called("decompose")' /\ ~ret'.args.keep_fourier) =>
        /\ sf'.fourier_E = sf.fourier_E
        /\ sf'.fourier_B = sf.fourier_B

C1_CacheStateMachine ==
    /\ [](C1_AfterInit /\ C1_AfterKeep /\ C1_AfterFromEB)
    /\ [][C1_NoKeep]_vars

\* decompose(keep_fourier=False) ran on a cached instance whose cache is not
\* what that call computed, and the cache is still there.
C1_Witness ==
    /\ Returned("decompose") /\ ~ret.args.keep_fourier
    /\ FourierCached(sf)
    /\ sf.fourier_E # ComputedE

(***************************************************************************)
(* C2: convergence().  Without a cached E-mode it runs decompose once,     *)
(* with the default bin edges and keep_fourier=True, and leaves the        *)
(* instance cached; with one it runs no decompose and leaves fourier_E and *)
(* fourier_B as they are.  Either way it returns the inverse transform of  *)
(* the cached E-mode with the instance's side angle, and gamma is as       *)
(* before.                                                                 *)
(***************************************************************************)
DefaultDecompose ==
    [op |-> "decompose", l_edges |-> DefaultEdges, keep_fourier |-> TRUE]

C2_Result ==
    Called("convergence") =>
        /\ ret.raised = "none"
        /\ FourierCached(sf)
        /\ ret.value.kappa = irfft2(sf.fourier_E)
        /\ ret.value.side_angle = sf.side_angle

C2_Step ==
    Called("convergence")' =>
        /\ sf'.gamma = sf.gamma
        /\ sf'.side_angle = sf.side_angle
        /\ ~hasattr(sf.fourier_E) =>
              /\ ret'.calls = <<DefaultDecompose>>
              /\ Len(azimuthal') = 3
              /\ sf'.fourier_E = ft_E(sf.gamma)
              /\ sf'.fourier_B = ft_B(sf.gamma)
        /\ hasattr(sf.fourier_E) =>
              /\ ret'.calls = <<>>
              /\ azimuthal' = <<>>
              /\ sf'.fourier_E = sf.fourier_E
              /\ sf'.fourier_B = sf.fourier_B

C2_Convergence == []C2_Result /\ [][C2_Step]_vars

\* convergence() found no cache, decomposed, and returned a non-zero field.
C2_Witness ==
    /\ Returned("convergence")
    /\ ret.calls = <<DefaultDecompose>>
    /\ ~AllZero(ret.value.kappa)

(***************************************************************************)
(* C3: no invalidation.  A cached instance stays cached under decompose,   *)
(* convergence and writes to gamma; a write to gamma leaves fourier_E and  *)
(* fourier_B as they are, so the next convergence() returns the transform  *)
(* of the old E-mode; only decompose(keep_fourier=True) changes the cached *)
(* fields.                                                                 *)
(***************************************************************************)
GammaWrite == "gamma[1][1,1] = value"

C3_StaysCached == FourierCached(sf) => FourierCached(sf')

C3_WriteKeepsCache ==
    (sf # NoObject /\ Called(GammaWrite)') =>
        /\ sf'.fourier_E = sf.fourier_E
        /\ sf'.fourier_B = sf.fourier_B

C3_StaleConvergence ==
    (FourierCached(sf) /\ Called("convergence")') =>
        ret'.value.kappa = irfft2(sf.fourier_E)

C3_OnlyDecomposeReplaces ==
    (FourierCached(sf)
     /\ (sf'.fourier_E # sf.fourier_E \/ sf'.fourier_B # sf.fourier_B)) =>
        (Returned("decompose")' /\ ret'.args.keep_fourier)

C3_NoInvalidation ==
    [][/\ C3_StaysCached
       /\ C3_WriteKeepsCache
       /\ C3_StaleConvergence
       /\ C3_OnlyDecomposeReplaces]_vars

\* After a write to gamma, convergence() returned a field that is not the
\* one the present gamma gives.
C3_Witness ==
    /\ Returned("convergence")
    /\ ret.calls = <<>>
    /\ ret.value.kappa # irfft2(ft_E(sf.gamma))
    /\ supplied = None

(***************************************************************************)
(* C4: what fromEBmodes rejects.                                           *)
(***************************************************************************)
IsComplex(a) == a.dtype \in {"complex64", "complex128"}

\* The preconditions as the claim words them: both complex-valued, the same
\* shape, and shape[1] == shape[0]/2 + 1.
C4_ClaimedPreconditions(E, B) ==
    /\ IsComplex(E) /\ IsComplex(B)
    /\ Shape(E) = Shape(B)
    /\ RealFFTLayout(E) /\ RealFFTLayout(B)

Rejected ==
    /\ ret.raised = "AssertionError"
    /\ sf = NoObject
    /\ supplied = None
    /\ azimuthal = <<>>

\* C4 as claimed: fromEBmodes rejects every pair that breaks the claimed
\* preconditions, and succeeds, returning an instance, for every pair that
\* meets them.
C4_AsClaimed ==
    (Called("fromEBmodes") /\ ret.args.angle = DefaultAngle) =>
        IF C4_ClaimedPreconditions(ret.args.fourier_E, ret.args.fourier_B)
        THEN ret.raised = "none" /\ sf # NoObject
        ELSE Rejected

\* The preconditions the code checks: both of dtype complex128, each of the
\* real-FFT layout, the same shape.
C4_CheckedPreconditions(E, B) ==
    /\ E.dtype = "complex128" /\ B.dtype = "complex128"
    /\ Shape(E) = Shape(B)
    /\ RealFFTLayout(E) /\ RealFFTLayout(B)

\* C4 (amended): fromEBmodes rejects with an assertion error, building no
\* instance, every pair in which E or B is not of dtype complex128 (so every
\* pair with a field that is not complex, and every complex64 one), in which
\* the shapes differ, or in which a shape is not of the real-FFT layout
\* (E of shape (4,4) with B of shape (4,3) among them); and for every
\* complex128 pair of one real-FFT shape with at least 2 rows, given an
\* angle, it succeeds and returns an instance.
C4_Rejection ==
    Called("fromEBmodes") =>
        /\ ~C4_CheckedPreconditions(ret.args.fourier_E, ret.args.fourier_B) => Rejected
        /\ (/\ C4_CheckedPreconditions(ret.args.fourier_E, ret.args.fourier_B)
            /\ ret.args.fourier_E.rows >= 2
            /\ physical_type(ret.args.angle.unit) = "angle") =>
              /\ ret.raised = "none"
              /\ sf # NoObject
              /\ Shape(sf.gamma[1]) = <<ret.args.fourier_E.rows, ret.args.fourier_E.rows>>

\* E of shape (4,4) with B of shape (4,3), both complex128, was rejected.
C4_Witness ==
    /\ Called("fromEBmodes")
    /\ ret.args.fourier_E.dtype = "complex128"
    /\ ret.args.fourier_B.dtype = "complex128"
    /\ Shape(ret.args.fourier_E) = <<4, 4>>
    /\ Shape(ret.args.fourier_B) = <<4, 3>>
    /\ Rejected

(***************************************************************************)
(* C5: decompose given fewer than 2 bin edges, or edges that are not       *)
(* strictly increasing, raises before the binning primitive is called,     *)
(* and leaves the cache as it was.                                         *)
(***************************************************************************)
C5_EdgesRejected ==
    (Called("decompose") /\ ~ValidEdges(ret.args.l_edges)) =>
        /\ ret.raised # "none"
        /\ azimuthal = <<>>

(***************************************************************************)
(* C6: DC zeroing.  Whatever the shear map, the E and B fields decompose   *)
(* computes are 0 at cell [0,0]: those it hands to the binning primitive,  *)
(* and those it stores when keep_fourier=True.                             *)
(***************************************************************************)
C6_DCZero ==
    /\ RanForward => \A a \in PassedFields : CellZero(a, DC)
    /\ (Returned("decompose") /\ ret.args.keep_fourier) =>
          CellZero(sf.fourier_E, DC) /\ CellZero(sf.fourier_B, DC)
    /\ (Returned("convergence") /\ ret.calls # <<>>) =>
          CellZero(sf.fourier_E, DC) /\ CellZero(sf.fourier_B, DC)

\* decompose(keep_fourier=True) ran on a map whose gamma1 and gamma2 both
\* have a non-zero mean.
C6_Witness ==
    /\ Returned("decompose") /\ ret.args.keep_fourier
    /\ ~CellZero(rfft2(sf.gamma[1]), DC)
    /\ ~CellZero(rfft2(sf.gamma[2]), DC)
    /\ Len(azimuthal) = 3

(***************************************************************************)
(* C7: the round trip.                                                     *)
(***************************************************************************)
\* The latest call is a decompose of an instance fromEBmodes built, with
\* gamma as fromEBmodes left it.
RoundTrip ==
    /\ Returned("decompose")
    /\ supplied # None
    /\ sf.gamma = InverseGamma(supplied.fourier_E, supplied.fourier_B)

\* C7 as claimed: for any complex E and B of a real-FFT shape, the forward
\* transform of the map fromEBmodes builds gives E and B back at every cell
\* but [0,0], and 0 at [0,0].
C7_AsClaimed ==
    RoundTrip =>
        /\ EqualOffDC(ComputedE, supplied.fourier_E)
        /\ EqualOffDC(ComputedB, supplied.fourier_B)
        /\ CellZero(ComputedE, DC) /\ CellZero(ComputedB, DC)

\* C7 (amended): for E and B that are the forward transform of a real shear
\* map, the forward transform of the map fromEBmodes builds gives E and B
\* back at every cell but [0,0], and 0 at [0,0].
C7_RoundTrip ==
    (RoundTrip /\ <<supplied.fourier_E, supplied.fourier_B>> \in ForwardImages) =>
        /\ EqualOffDC(ComputedE, supplied.fourier_E)
        /\ EqualOffDC(ComputedB, supplied.fourier_B)
        /\ CellZero(ComputedE, DC) /\ CellZero(ComputedB, DC)

\* A round trip of the transform of a real map, with E and B both non-zero.
C7_Witness ==
    /\ RoundTrip
    /\ <<supplied.fourier_E, supplied.fourier_B>> \in ForwardImages
    /\ ~AllZero(supplied.fourier_E)
    /\ ~AllZero(supplied.fourier_B)
    /\ supplied.fourier_E.rows = 4

(***************************************************************************)
(* C8: a pure E-mode map has no B-mode.  For fromEBmodes(E, B = 0), the B  *)
(* field decompose computes is 0 at every cell (and so are the BB and EB   *)
(* powers the binning primitive gets from it).                             *)
(***************************************************************************)
C8_PureE ==
    (RoundTrip /\ AllZero(supplied.fourier_B)) =>
        /\ AllZero(ComputedB)
        /\ AllZero(azimuthal[3].ft_b)

(***************************************************************************)
(* C9: two simultaneous convergence() calls race on the cache.             *)
(***************************************************************************)
\* Thread t's latest call is a convergence() that found no fourier_E at line
\* 316 and is past its decompose.
Populated(t) ==
    /\ frame[t].op = "convergence"
    /\ frame[t].observed = "absent"
    /\ pc[t] \in {"321", "idle"}

\* C9: nothing guards the cache between the test of line 316 and the stores
\* of lines 300-301: every convergence() call that found no cached E-mode
\* has run the populating decompose and stored both fourier_E and fourier_B,
\* whatever other calls stored in between.
C9_DataRace ==
    \A t \in Threads :
        Populated(t) => (Tag(t) \in writer.Ehist /\ Tag(t) \in writer.Bhist)

\* Two overlapping convergence() calls both found no cache, and both stored
\* fourier_E and fourier_B.
C9_Witness ==
    \E t \in Threads : \E u \in Threads \ {t} :
        /\ Populated(t) /\ Populated(u)
        /\ pc[t] = "idle" /\ pc[u] = "idle"
        /\ overlap
        /\ {Tag(t), Tag(u)} \subseteq writer.Ehist
        /\ {Tag(t), Tag(u)} \subseteq writer.Bhist

(***************************************************************************)
(* C10: the cached pair.                                                   *)
(***************************************************************************)
\* fourier_E and fourier_B are both absent, or both present and stored by
\* the same decompose call (or supplied together to fromEBmodes).
PairConsistent ==
    /\ hasattr(sf.fourier_E) <=> hasattr(sf.fourier_B)
    /\ writer.E = writer.B

\* A visualizeComponents call that has returned or raised.
Visualized(t) == frame[t].op = "visualizeComponents" /\ pc[t] = "idle"

\* It read a fourier_B, of the decomposition its fourier_E came from.
ReadOnePair(t) ==
    /\ frame[t].raised = "none"
    /\ frame[t].readE = frame[t].readB

\* C10 as claimed: in every state, those within concurrently running calls
\* included, the cached pair is consistent, and every reader reads fourier_E
\* and fourier_B of one decomposition.
C10_AsClaimed ==
    /\ PairConsistent
    /\ \A t \in Threads : Visualized(t) => ReadOnePair(t)

\* C10 (amended): as long as the calls on the instance are serialised (none
\* has started while another was running), the cached pair is consistent in
\* every state but those between the two stores of a decompose (lines 300
\* and 301), and every reader reads fourier_E and fourier_B of one
\* decomposition.
C10_PairConsistency ==
    ~overlap =>
        /\ (\A t \in Threads : pc[t] # "301") => PairConsistent
        /\ \A t \in Threads : Visualized(t) => ReadOnePair(t)

\* After a decompose(keep_fourier=True) of one thread has returned, another
\* thread's visualizeComponents read the pair that call stored.
C10_Witness ==
    \E t \in Threads : \E u \in Threads \ {t} :
        /\ ~overlap
        /\ Visualized(t)
        /\ frame[u].op = "decompose"
        /\ frame[t].readE = Tag(u)
        /\ frame[t].readB = Tag(u)

=============================================================================
